---------------------------- MODULE Spec2Model ----------------------------
(***************************************************************************)
(* Lifecycle controller of the Device parent class (src/device.py) as it   *)
(* is used by Picoscope3207a (src/picoscope3207a.py).                      *)
(*                                                                         *)
(* The state is the controller's fields.  Every public method is a call    *)
(* made by a caller thread; a call is a sequence of steps, one per         *)
(* statement that reads or writes shared state, so that calls made by      *)
(* different threads interleave as Python threads do.  The overridable     *)
(* hooks (_open_device, _close_device, _start_device, _stop_device,        *)
(* _create_log) either return or raise: the Picoscope hooks raise IOError  *)
(* from check_result whenever a driver call returns a non-zero code.       *)
(***************************************************************************)
EXTENDS Naturals, Sequences, FiniteSets

\* Number of caller threads of the concurrent specification.
NumCallers == 2
\* Number of times _start_device may launch its stage threads.
MaxRuns == 2
\* Number of distinct data_dir arguments a caller may pass to start().
MaxDirs == 1

\* Number of samples the acquisition threads may enqueue.
MaxSamples == 2

Threads == 1..NumCallers
\* The i-th successful _start_device starts collect, process and save thread i.
Runs == 1..MaxRuns
Main == 1
\* data_dir = None is 0
DirArgs == 0..MaxDirs

VARIABLES
    _opening,     \* Device._opening
    _open,        \* Device._open
    _running,     \* Device._running
    _allow_save,  \* Device._allow_save
    _has_error,   \* Device._has_error
    _data_dir,    \* Device._data_dir (0: never set)
    _lock,        \* Device._lock: 0 when free, else the thread holding it
    launches,     \* how many times _start_device started save/process/collect threads
    pc,           \* position of each caller thread
    op,           \* the public method each caller thread is executing
    observing,    \* whether Main's calls are recorded in the next four
    hooks,        \* hooks invoked so far by Main's current call, in order
    raised,       \* whether Main's current call ended by an exception
    entry,        \* the fields as they were when Main made its current call
    last,         \* the previous call Main completed
    opened,       \* history: an open() succeeded and no close() has closed since
    _has_update_thread, \* Device._has_update_thread (None is FALSE)
    _has_save_thread,   \* Device._has_save_thread (None is FALSE)
    upd,          \* whether open() has started a Device.update thread
    sav,          \* whether open() has started a Device.save thread
    _collecting,  \* Picoscope3207a._collecting
    _run_lock,    \* Picoscope3207a._run_lock: 0 when free, else the collect thread (or Button) holding it
    _process_queue, \* Picoscope3207a._process_queue: the samples in it, oldest first
    _save_queue,  \* Picoscope3207a._save_queue: the samples in it, oldest first
    collect,      \* position of each run_loop thread
    process,      \* position of each process thread and the sample it holds
    save,         \* position of each save thread and the sample it holds
    files,        \* what each save thread has written to its csv file, in order
    acquired,     \* how many samples have been enqueued; sample n is the n-th
    failed,       \* history: the samples whose processing or writing raised
    used,         \* history: the files that got a data row while capture was enabled
    stale,        \* history: the files used under capture before capture was disabled
    idle_cycles,  \* history, when observing: the acquisition cycles begun, since
                  \* _running was last set, while the device was idle (up to MaxIdle)
    _driver_lock, \* Picoscope3207a._driver_lock: whether a thread holds it
    configured,   \* whether _start_device has set _data, _timebase and v_range
    once,         \* position of the thread that calls run_once
    mark,         \* history: `acquired` when the run_once call took the run lock
    clk           \* a call of a function wrapped by clockwork, and the clock

\* The device's declaration of background threads, fixed at construction.
config == <<_has_update_thread, _has_save_thread>>
\* The threads open() starts.
devthreads == <<upd, sav>>
\* The acquire -> process -> persist pipeline of the Picoscope.
stages == <<_run_lock, _process_queue, _save_queue, collect, process, save,
            files, acquired, failed, used>>
\* What neither a lifecycle call nor a stage thread writes.
aside == <<config, clk, once, mark>>
\* Everything of the Picoscope but the driver lock and what _start_device sets.
quiet == <<aside, devthreads, _collecting, stages, stale, idle_cycles>>
pipe == <<quiet, _driver_lock, configured>>

vars == <<_opening, _open, _running, _allow_save, _has_error, _data_dir, _lock,
          launches, pc, op, observing, hooks, raised, entry, last, opened, pipe>>

flags == <<_opening, _open, _running, _allow_save, _has_error>>
locals == <<op, observing, entry, last>>

\* The fields of the controller a caller can observe.
Fields ==
    [opening |-> _opening, open |-> _open, running |-> _running,
     allow_save |-> _allow_save, has_error |-> _has_error,
     data_dir |-> _data_dir, lock |-> _lock, launches |-> launches]

NoEntry ==
    [opening |-> FALSE, open |-> FALSE, running |-> FALSE,
     allow_save |-> FALSE, has_error |-> FALSE,
     data_dir |-> 0, lock |-> 0, launches |-> 0]

\* Device.ready
ready == _open

\* The lifecycle state the flags encode.
DeviceState ==
    IF _running THEN "Running"
    ELSE IF _open THEN "Open"
    ELSE IF _opening THEN "Opening"
    ELSE "Closed"

StateOf(f) ==
    IF f.running THEN "Running"
    ELSE IF f.open THEN "Open"
    ELSE IF f.opening THEN "Opening"
    ELSE "Closed"

\* Device.__init__ ; the check_error thread is constructed and never started.
Construct ==
    /\ _opening = FALSE
    /\ _open = FALSE
    /\ _running = FALSE
    /\ _allow_save = FALSE
    /\ _has_error = FALSE
    /\ _data_dir = 0
    /\ _lock = 0
    /\ launches = 0
    /\ pc = [t \in Threads |-> "idle"]
    /\ op = [t \in Threads |-> "none"]
    /\ hooks = << >>
    /\ raised = FALSE
    /\ entry = NoEntry
    /\ last = "none"
    /\ opened = FALSE
    /\ upd = FALSE
    /\ sav = FALSE
    /\ _collecting = FALSE
    /\ _run_lock = 0
    /\ _process_queue = << >>
    /\ _save_queue = << >>
    /\ collect = [i \in Runs |-> "lock"]
    /\ process = [i \in Runs |-> [pc |-> "get", held |-> 0]]
    /\ save = [i \in Runs |-> [pc |-> "init", held |-> 0]]
    /\ files = [i \in Runs |-> << >>]
    /\ acquired = 0
    /\ failed = {}
    /\ used = {}
    /\ stale = {}
    /\ idle_cycles = 0
    /\ _driver_lock = FALSE
    /\ configured = FALSE
    /\ once = "idle"
    /\ mark = 0

\* Picoscope3207a leaves _has_save_thread and _has_update_thread at None.
Plain == _has_update_thread = FALSE /\ _has_save_thread = FALSE

\* No call of a clockwork wrapper is followed on its own.
NoClock ==
    clk = [pc |-> "off", now |-> 0, start |-> 0, duration |-> 0,
           contingency |-> 0, took |-> 0]

Init == Construct /\ observing = FALSE /\ Plain /\ NoClock

\* The calls of the single controlling thread are recorded.
SeqInit == Construct /\ observing = TRUE /\ Plain /\ NoClock

\* Whether the calls of thread t are recorded.
Obs(t) == observing /\ t = Main

Goto(t, l) == pc' = [pc EXCEPT ![t] = l]

\* The header row of a csv file; the data rows of sample n are written n.
Header == 0
DataRows(k) == {i \in DOMAIN files[k] : files[k][i] # Header}
\* What a recorded call invokes and how it ends.
Invoke(t, h, ok) ==
    hooks' = IF Obs(t) THEN Append(hooks, [hook |-> h, ok |-> ok]) ELSE hooks
Raise(t) == raised' = IF Obs(t) THEN TRUE ELSE raised

\* A caller thread makes a call.
Begin(t, o, l) ==
    /\ pc[t] = "idle"
    /\ Goto(t, l)
    /\ op' = [op EXCEPT ![t] = o]
    /\ entry' = IF Obs(t) THEN Fields ELSE entry
    /\ UNCHANGED observing
    /\ UNCHANGED <<flags, _data_dir, _lock, launches, hooks, raised, last, opened>>
    /\ UNCHANGED pipe

CallOpen(t) == Begin(t, "open", "open")
CallClose(t) == Begin(t, "close", "close")
\* Each successful start() launches three more threads that never end: callers
\* make at most MaxRuns start() calls that can do so.
Starting == {u \in Threads : op[u] = "start"}
CallStart(t) == launches + Cardinality(Starting) < MaxRuns /\ Begin(t, "start", "start")
CallStop(t) == Begin(t, "stop", "stop_lock")
CallToggleSave(t) == Begin(t, "toggle_save", "toggle")
\* restart: self.close() ...
CallRestart(t) == Begin(t, "restart", "close")
\* ... time.sleep(1) ; self.open() once close() has returned: where a caller
\* goes on when its close() returns
AfterClose(t) == IF op[t] = "restart" THEN "open" ELSE "done"

\* The call has returned (or raised); the caller goes on.
Return(t) ==
    /\ pc[t] = "done"
    /\ Goto(t, "idle")
    /\ op' = [op EXCEPT ![t] = "none"]
    /\ last' = IF Obs(t) THEN op[t] ELSE last
    /\ hooks' = IF Obs(t) THEN << >> ELSE hooks
    /\ raised' = IF Obs(t) THEN FALSE ELSE raised
    /\ entry' = IF Obs(t) THEN NoEntry ELSE entry
    /\ UNCHANGED observing
    /\ UNCHANGED <<flags, _data_dir, _lock, launches, opened>>
    /\ UNCHANGED pipe

-----------------------------------------------------------------------------
\* Device.open

OpenSetOpening(t) ==
    /\ pc[t] = "open"
    /\ _opening' = TRUE
    /\ Goto(t, "open_enter")
    /\ UNCHANGED <<_open, _running, _allow_save, _has_error, _data_dir, _lock,
                   launches, hooks, raised, locals, opened>>
    /\ UNCHANGED pipe

\* _open_device: the library is loaded, then with self._driver_lock:
OpenDeviceEnter(t) ==
    /\ pc[t] = "open_enter"
    /\ ~_driver_lock
    /\ _driver_lock' = TRUE
    /\ Goto(t, "open_hook")
    /\ UNCHANGED <<flags, _data_dir, _lock, launches, hooks, raised, locals, opened>>
    /\ UNCHANGED <<quiet, configured>>

\* self._open = self._open_device(), the hook returning True
OpenDeviceOk(t) ==
    /\ pc[t] = "open_hook"
    /\ Invoke(t, "open", TRUE)
    /\ _open' = TRUE
    /\ opened' = TRUE
    /\ Goto(t, "open_check")
    /\ UNCHANGED <<_opening, _running, _allow_save, _has_error, _data_dir, _lock,
                   launches, raised, locals>>
    /\ _driver_lock' = FALSE
    /\ UNCHANGED <<quiet, configured>>

\* the hook raising: except: self._has_error = True
OpenDeviceRaise(t) ==
    /\ pc[t] = "open_hook"
    /\ Invoke(t, "open", FALSE)
    /\ _has_error' = TRUE
    /\ Goto(t, "open_check")
    /\ UNCHANGED <<_opening, _open, _running, _allow_save, _data_dir, _lock,
                   launches, raised, locals, opened>>
    /\ _driver_lock' = FALSE
    /\ UNCHANGED <<quiet, configured>>

\* if self._open: a save and an update thread are started when the device
\* declares them.  _has_save_thread and _has_update_thread are None for the
\* Picoscope, so there neither branch allocates a queue or starts a thread.
OpenCheck(t) ==
    /\ pc[t] = "open_check"
    /\ sav' = (sav \/ (_open /\ _has_save_thread))
    /\ upd' = (upd \/ (_open /\ _has_update_thread))
    /\ Goto(t, "done")
    /\ UNCHANGED <<flags, _data_dir, _lock, launches, hooks, raised, locals, opened>>
    /\ UNCHANGED <<aside, _collecting, stages, stale, idle_cycles,
                   _driver_lock, configured>>

-----------------------------------------------------------------------------
\* Device.close

\* if self._open:
CloseCheckOpen(t) ==
    /\ pc[t] = "close"
    /\ Goto(t, IF _open THEN "close_running" ELSE AfterClose(t))
    /\ UNCHANGED <<flags, _data_dir, _lock, launches, hooks, raised, locals, opened>>
    /\ UNCHANGED pipe

\* if self._running: self.stop()
CloseCheckRunning(t) ==
    /\ pc[t] = "close_running"
    /\ Goto(t, IF _running THEN "stop_lock" ELSE "close_clear")
    /\ UNCHANGED <<flags, _data_dir, _lock, launches, hooks, raised, locals, opened>>
    /\ UNCHANGED pipe

\* self._open = False ; self._opening = False
CloseClear(t) ==
    /\ pc[t] = "close_clear"
    /\ _open' = FALSE
    /\ _opening' = FALSE
    /\ opened' = FALSE
    /\ Goto(t, "close_enter")
    /\ UNCHANGED <<_running, _allow_save, _has_error, _data_dir, _lock,
                   launches, hooks, raised, locals>>
    /\ UNCHANGED pipe

\* _close_device: with self._driver_lock:
CloseDeviceEnter(t) ==
    /\ pc[t] = "close_enter"
    /\ ~_driver_lock
    /\ _driver_lock' = TRUE
    /\ Goto(t, "close_hook")
    /\ UNCHANGED <<flags, _data_dir, _lock, launches, hooks, raised, locals, opened>>
    /\ UNCHANGED <<quiet, configured>>

\* restart() as it would be without its call of open()
CloseDeviceOk_NoReopen(t) ==
    /\ pc[t] = "close_hook"
    /\ Invoke(t, "close", TRUE)
    /\ Goto(t, "done")
    /\ UNCHANGED <<flags, _data_dir, _lock, launches, raised, locals, opened>>
    /\ _driver_lock' = FALSE
    /\ UNCHANGED <<quiet, configured>>

\* self._close_device() returning
CloseDeviceOk(t) ==
    /\ pc[t] = "close_hook"
    /\ Invoke(t, "close", TRUE)
    /\ Goto(t, AfterClose(t))
    /\ UNCHANGED <<flags, _data_dir, _lock, launches, raised, locals, opened>>
    /\ _driver_lock' = FALSE
    /\ UNCHANGED <<quiet, configured>>

\* self._close_device() raising: nothing in close() catches it
CloseDeviceRaise(t) ==
    /\ pc[t] = "close_hook"
    /\ Invoke(t, "close", FALSE)
    /\ Raise(t)
    /\ Goto(t, "done")
    /\ UNCHANGED <<flags, _data_dir, _lock, launches, locals, opened>>
    /\ _driver_lock' = FALSE
    /\ UNCHANGED <<quiet, configured>>

-----------------------------------------------------------------------------
\* Device.stop, called by a caller or from close()

\* with self._lock:
StopAcquire(t) ==
    /\ pc[t] = "stop_lock"
    /\ _lock = 0
    /\ _lock' = t
    /\ Goto(t, "stop_running")
    /\ UNCHANGED <<flags, _data_dir, launches, hooks, raised, locals, opened>>
    /\ UNCHANGED pipe

\* self._running = False
StopClearRunning(t) ==
    /\ pc[t] = "stop_running"
    /\ _running' = FALSE
    /\ Goto(t, "stop_save")
    /\ UNCHANGED <<_opening, _open, _allow_save, _has_error, _data_dir, _lock,
                   launches, hooks, raised, locals, opened>>
    /\ UNCHANGED pipe

\* stop() as it would be without the assignment to self._allow_save
StopClearSave_Skip(t) ==
    /\ pc[t] = "stop_save"
    /\ Goto(t, "stop_enter")
    /\ UNCHANGED <<flags, _data_dir, _lock, launches, hooks, raised, locals, opened>>
    /\ UNCHANGED pipe

\* self._allow_save = False
StopClearSave(t) ==
    /\ pc[t] = "stop_save"
    /\ _allow_save' = FALSE
    /\ stale' = IF _allow_save THEN stale \cup used ELSE stale
    /\ UNCHANGED <<aside, devthreads, _collecting, stages, idle_cycles,
                   _driver_lock, configured>>
    /\ Goto(t, "stop_enter")
    /\ UNCHANGED <<_opening, _open, _running, _has_error, _data_dir, _lock,
                   launches, hooks, raised, locals, opened>>

\* _stop_device: with self._driver_lock:
StopDeviceEnter(t) ==
    /\ pc[t] = "stop_enter"
    /\ ~_driver_lock
    /\ _driver_lock' = TRUE
    /\ Goto(t, "stop_hook")
    /\ UNCHANGED <<flags, _data_dir, _lock, launches, hooks, raised, locals, opened>>
    /\ UNCHANGED <<quiet, configured>>

\* self._stop_device() returning; the with block releases the lock
StopDeviceOk(t) ==
    /\ pc[t] = "stop_hook"
    /\ Invoke(t, "stop", TRUE)
    /\ _lock' = 0
    /\ Goto(t, IF op[t] \in {"close", "restart"} THEN "close_clear" ELSE "done")
    /\ UNCHANGED <<flags, _data_dir, launches, raised, locals, opened>>
    /\ _driver_lock' = FALSE
    /\ UNCHANGED <<quiet, configured>>

\* stop() as it would be with acquire()/release() in place of the with block:
\* a raising hook would leave the lifecycle lock held
StopDeviceRaise_KeepLock(t) ==
    /\ pc[t] = "stop_hook"
    /\ Invoke(t, "stop", FALSE)
    /\ _lock' = _lock
    /\ Raise(t)
    /\ Goto(t, "done")
    /\ UNCHANGED <<flags, _data_dir, launches, locals, opened>>
    /\ _driver_lock' = FALSE
    /\ UNCHANGED <<quiet, configured>>

\* self._stop_device() raising: the with block releases the lock and the
\* exception leaves stop(), and close() when close() made the call
StopDeviceRaise(t) ==
    /\ pc[t] = "stop_hook"
    /\ Invoke(t, "stop", FALSE)
    /\ _lock' = 0
    /\ Raise(t)
    /\ Goto(t, "done")
    /\ UNCHANGED <<flags, _data_dir, launches, locals, opened>>
    /\ _driver_lock' = FALSE
    /\ UNCHANGED <<quiet, configured>>

-----------------------------------------------------------------------------
\* Device.start

\* start() as it would be without the test of self._open
StartCheckOpen_NoGuard(t) ==
    /\ pc[t] = "start"
    /\ Goto(t, "start_lock")
    /\ UNCHANGED <<flags, _data_dir, _lock, launches, hooks, raised, locals, opened>>
    /\ UNCHANGED pipe

\* if self._open: ... else: print("... is not Open and did not start.")
StartCheckOpen(t) ==
    /\ pc[t] = "start"
    /\ Goto(t, IF _open THEN "start_lock" ELSE "done")
    /\ UNCHANGED <<flags, _data_dir, _lock, launches, hooks, raised, locals, opened>>
    /\ UNCHANGED pipe

\* start() as it would be if it entered its body without waiting for the lock
StartAcquire_NoWait(t) ==
    /\ pc[t] = "start_lock"
    /\ _lock' = t
    /\ Goto(t, "start_dir")
    /\ UNCHANGED <<flags, _data_dir, launches, hooks, raised, locals, opened>>
    /\ UNCHANGED pipe

\* with self._lock:
StartAcquire(t) ==
    /\ pc[t] = "start_lock"
    /\ _lock = 0
    /\ _lock' = t
    /\ Goto(t, "start_dir")
    /\ UNCHANGED <<flags, _data_dir, launches, hooks, raised, locals, opened>>
    /\ UNCHANGED pipe

\* if data_dir is not None: self._data_dir = data_dir ; d is the argument
\* the caller passed (0: None)
StartSetDir(t) ==
    /\ pc[t] = "start_dir"
    /\ \E d \in DirArgs : _data_dir' = IF d # 0 THEN d ELSE _data_dir
    /\ Goto(t, "start_running")
    /\ UNCHANGED <<flags, _lock, launches, hooks, raised, locals, opened>>
    /\ UNCHANGED pipe

\* if not self._running: ... else: print("... is already running.")
StartCheckRunning(t) ==
    /\ pc[t] = "start_running"
    /\ Goto(t, IF _running THEN "start_already" ELSE "start_save")
    /\ UNCHANGED <<flags, _data_dir, _lock, launches, hooks, raised, locals, opened>>
    /\ UNCHANGED pipe

\* the else branch's print, then the with block releases the lock
StartAlready(t) ==
    /\ pc[t] = "start_already"
    /\ _lock' = 0
    /\ Goto(t, "done")
    /\ UNCHANGED <<flags, _data_dir, launches, hooks, raised, locals, opened>>
    /\ UNCHANGED pipe

\* if self._allow_save:
StartCheckSave(t) ==
    /\ pc[t] = "start_save"
    /\ Goto(t, IF _allow_save THEN "start_log" ELSE "start_enter")
    /\ UNCHANGED <<flags, _data_dir, _lock, launches, hooks, raised, locals, opened>>
    /\ UNCHANGED pipe

\* self._create_log() returning
StartCreateLogOk(t) ==
    /\ pc[t] = "start_log"
    /\ Invoke(t, "create_log", TRUE)
    /\ Goto(t, "start_enter")
    /\ UNCHANGED <<flags, _data_dir, _lock, launches, raised, locals, opened>>
    /\ UNCHANGED pipe

\* self._create_log() raising: the call stands before the try, so the
\* exception leaves start() through the with block, which releases the lock
StartCreateLogRaise(t) ==
    /\ pc[t] = "start_log"
    /\ Invoke(t, "create_log", FALSE)
    /\ _lock' = 0
    /\ Raise(t)
    /\ Goto(t, "done")
    /\ UNCHANGED <<flags, _data_dir, launches, locals, opened>>
    /\ UNCHANGED pipe

\* _start_device: _data, _timebase and v_range are set, then
\* with self._driver_lock:
StartDeviceEnter(t) ==
    /\ pc[t] = "start_enter"
    /\ ~_driver_lock
    /\ _driver_lock' = TRUE
    /\ configured' = TRUE
    /\ Goto(t, "start_hook")
    /\ UNCHANGED <<flags, _data_dir, _lock, launches, hooks, raised, locals, opened>>
    /\ UNCHANGED quiet

\* self._start_device() returning True: the driver calls succeeded and the
\* save, process and collect threads were created and started
StartDeviceOk(t) ==
    /\ pc[t] = "start_hook"
    /\ Invoke(t, "start", TRUE)
    /\ launches' = launches + 1
    /\ Goto(t, "start_assign")
    /\ UNCHANGED <<flags, _data_dir, _lock, raised, locals, opened>>
    /\ _driver_lock' = FALSE
    /\ UNCHANGED <<quiet, configured>>

\* self._running = <the hook's result>
StartAssign(t) ==
    /\ pc[t] = "start_assign"
    /\ _running' = TRUE
    /\ idle_cycles' = 0
    /\ Goto(t, "start_release")
    /\ UNCHANGED <<_opening, _open, _allow_save, _has_error, _data_dir, _lock,
                   launches, hooks, raised, locals, opened>>
    /\ UNCHANGED <<aside, devthreads, _collecting, stages, stale,
                   _driver_lock, configured>>

\* self._start_device() raising in check_result, before any thread is
\* created: except: self._has_error = True
StartDeviceRaise(t) ==
    /\ pc[t] = "start_hook"
    /\ Invoke(t, "start", FALSE)
    /\ _has_error' = TRUE
    /\ Goto(t, "start_release")
    /\ UNCHANGED <<_opening, _open, _running, _allow_save, _data_dir, _lock,
                   launches, raised, locals, opened>>
    /\ _driver_lock' = FALSE
    /\ UNCHANGED <<quiet, configured>>

\* the STARTED / DID NOT START print, then the with block releases the lock
StartRelease(t) ==
    /\ pc[t] = "start_release"
    /\ _lock' = 0
    /\ Goto(t, "done")
    /\ UNCHANGED <<flags, _data_dir, launches, hooks, raised, locals, opened>>
    /\ UNCHANGED pipe

-----------------------------------------------------------------------------
\* Device.toggle_save

\* if not self._allow_save:
ToggleCheck(t) ==
    /\ pc[t] = "toggle"
    /\ Goto(t, IF ~_allow_save THEN "toggle_log" ELSE "toggle_flip")
    /\ UNCHANGED <<flags, _data_dir, _lock, launches, hooks, raised, locals, opened>>
    /\ UNCHANGED pipe

\* self._create_log() returning
ToggleCreateLogOk(t) ==
    /\ pc[t] = "toggle_log"
    /\ Invoke(t, "create_log", TRUE)
    /\ Goto(t, "toggle_flip")
    /\ UNCHANGED <<flags, _data_dir, _lock, launches, raised, locals, opened>>
    /\ UNCHANGED pipe

\* self._create_log() raising
ToggleCreateLogRaise(t) ==
    /\ pc[t] = "toggle_log"
    /\ Invoke(t, "create_log", FALSE)
    /\ Raise(t)
    /\ Goto(t, "done")
    /\ UNCHANGED <<flags, _data_dir, _lock, launches, locals, opened>>
    /\ UNCHANGED pipe

\* self._allow_save = not self._allow_save
ToggleFlip(t) ==
    /\ pc[t] = "toggle_flip"
    /\ _allow_save' = ~_allow_save
    /\ stale' = IF _allow_save THEN stale \cup used ELSE stale
    /\ UNCHANGED <<aside, devthreads, _collecting, stages, idle_cycles,
                   _driver_lock, configured>>
    /\ Goto(t, "done")
    /\ UNCHANGED <<_opening, _open, _running, _has_error, _data_dir, _lock,
                   launches, hooks, raised, locals, opened>>

-----------------------------------------------------------------------------

Step(t) ==
    \/ CallOpen(t) \/ CallClose(t) \/ CallStart(t) \/ CallStop(t)
    \/ CallToggleSave(t) \/ Return(t)
    \/ OpenSetOpening(t) \/ OpenDeviceEnter(t)
    \/ OpenDeviceOk(t) \/ OpenDeviceRaise(t) \/ OpenCheck(t)
    \/ CloseCheckOpen(t) \/ CloseCheckRunning(t) \/ CloseClear(t)
    \/ CloseDeviceEnter(t) \/ CloseDeviceOk(t) \/ CloseDeviceRaise(t)
    \/ StopAcquire(t) \/ StopClearRunning(t) \/ StopClearSave(t)
    \/ StopDeviceEnter(t) \/ StopDeviceOk(t) \/ StopDeviceRaise(t)
    \/ StartCheckOpen(t) \/ StartAcquire(t) \/ StartSetDir(t)
    \/ StartCheckRunning(t) \/ StartAlready(t) \/ StartCheckSave(t)
    \/ StartCreateLogOk(t) \/ StartCreateLogRaise(t)
    \/ StartDeviceEnter(t)
    \/ StartDeviceOk(t) \/ StartAssign(t) \/ StartDeviceRaise(t) \/ StartRelease(t)
    \/ ToggleCheck(t) \/ ToggleCreateLogOk(t) \/ ToggleCreateLogRaise(t)
    \/ ToggleFlip(t)

\* Caller threads call the public methods concurrently.
Next == \E t \in Threads : Step(t)

Spec == Init /\ [][Next]_vars

\* One controlling thread makes the calls one after the other.
SeqNext == Step(Main)

SeqSpec == SeqInit /\ [][SeqNext]_vars

\* One controlling thread that also calls restart().
RestartNext == SeqNext \/ CallRestart(Main)

RestartSpec == SeqInit /\ [][RestartNext]_vars

-----------------------------------------------------------------------------
\* The stage threads of Picoscope3207a.  Thread i of each stage exists once
\* _start_device has returned i times; none of them ever ends on stop() or
\* close().

\* The device is not running and the controlling thread is in no call: every
\* stop() and close() made so far has returned.
Idle == ~_running /\ pc[Main] \in {"idle", "done"}
\* A cycle of run_loop holds the run lock for LOOP_TIME less a millisecond, so
\* the third cycle begun after a stop() returned begins more than a
\* rate-limiter period after it, whichever run_loop threads made the cycles.
MaxIdle == 3

\* The thread of the user interface that calls run_once, as the holder of the
\* run lock.
Button == MaxRuns + 1

\* What the lifecycle calls own.
lifecycle == <<flags, _data_dir, _lock, launches, pc, hooks, raised, locals, opened>>

\* Picoscope3207a.toggle_run
toggle_run ==
    /\ _collecting' = ~_collecting
    /\ UNCHANGED <<lifecycle, aside, devthreads, _driver_lock, configured, stages, stale, idle_cycles>>

\* run_loop: with self._run_lock:
CollectAcquire(i) ==
    /\ i <= launches /\ collect[i] = "lock"
    /\ _run_lock = 0
    /\ _run_lock' = i
    /\ collect' = [collect EXCEPT ![i] = "test"]
    /\ idle_cycles' = IF observing /\ Idle /\ idle_cycles < MaxIdle
                      THEN idle_cycles + 1 ELSE idle_cycles
    /\ UNCHANGED <<lifecycle, aside, devthreads, _driver_lock, configured,
                   _collecting, _process_queue, _save_queue, process, save,
                   files, acquired, failed, used, stale>>

\* run: self._collecting is false; the clockwork wait, the release of the run
\* lock and the sleep of 1 ms follow
CollectIdle(i) ==
    /\ collect[i] = "test" /\ ~_collecting
    /\ _run_lock' = 0
    /\ collect' = [collect EXCEPT ![i] = "lock"]
    /\ UNCHANGED <<lifecycle, aside, devthreads, _driver_lock, configured,
                   _collecting, _process_queue, _save_queue, process, save,
                   files, acquired, failed, used, stale, idle_cycles>>

\* The samples still to come before MaxSamples have been enqueued: a run_once
\* call that has been made, and a cycle of run_loop that has read the device,
\* will each enqueue one.
Room ==
    MaxSamples - acquired - (IF once = "idle" THEN 0 ELSE 1)
        - Cardinality({i \in Runs : collect[i] \in {"run", "put"}})

\* run as it would be if it made the driver calls without the driver lock
CollectEnter_NoWait(i) ==
    /\ collect[i] = "test" /\ _collecting
    /\ Room > 0
    /\ _driver_lock' = TRUE
    /\ collect' = [collect EXCEPT ![i] = "run"]
    /\ UNCHANGED <<lifecycle, aside, devthreads, configured, _collecting,
                   _run_lock, _process_queue, _save_queue, process, save,
                   files, acquired, failed, used, stale, idle_cycles>>

\* run: self._collecting is true: with self._driver_lock: ; run() tests
\* nothing else, self._running included
CollectEnter(i) ==
    /\ collect[i] = "test" /\ _collecting
    /\ Room > 0
    /\ ~_driver_lock
    /\ _driver_lock' = TRUE
    /\ collect' = [collect EXCEPT ![i] = "run"]
    /\ UNCHANGED <<lifecycle, aside, devthreads, configured, _collecting,
                   _run_lock, _process_queue, _save_queue, process, save,
                   files, acquired, failed, used, stale, idle_cycles>>

\* run: the driver calls (RunBlock ... GetValues ... SigGenSoftwareControl)
\* succeed and the with block releases the driver lock
CollectRead(i) ==
    /\ collect[i] = "run"
    /\ _driver_lock' = FALSE
    /\ collect' = [collect EXCEPT ![i] = "put"]
    /\ UNCHANGED <<lifecycle, aside, devthreads, configured, _collecting,
                   _run_lock, _process_queue, _save_queue, process, save,
                   files, acquired, failed, used, stale, idle_cycles>>

\* run: a driver call returns a non-zero code and check_result raises; run_loop
\* has no handler, so the with blocks release both locks and the thread ends
CollectReadRaise(i) ==
    /\ collect[i] = "run"
    /\ _driver_lock' = FALSE
    /\ _run_lock' = 0
    /\ collect' = [collect EXCEPT ![i] = "dead"]
    /\ UNCHANGED <<lifecycle, aside, devthreads, configured, _collecting,
                   _process_queue, _save_queue, process, save, files, acquired,
                   failed, used, stale, idle_cycles>>

\* run: queue.put((time_data,data)); then the clockwork wait, the release of
\* the run lock and the sleep of 1 ms
CollectPut(i) ==
    /\ collect[i] = "put"
    /\ acquired' = acquired + 1
    /\ _process_queue' = Append(_process_queue, acquired + 1)
    /\ _run_lock' = 0
    /\ collect' = [collect EXCEPT ![i] = "lock"]
    /\ UNCHANGED <<lifecycle, aside, devthreads, _driver_lock, configured,
                   _collecting, _save_queue, process, save, files, failed,
                   used, stale, idle_cycles>>

\* process: t,v = get_queue.get()
ProcessGet(j) ==
    /\ j <= launches /\ process[j].pc = "get"
    /\ _process_queue # << >>
    /\ process' = [process EXCEPT ![j] = [pc |-> "put", held |-> Head(_process_queue)]]
    /\ _process_queue' = Tail(_process_queue)
    /\ UNCHANGED <<lifecycle, aside, devthreads, _driver_lock, configured, _collecting, _run_lock,
                   _save_queue, collect, save, files, acquired, failed, used, stale, idle_cycles>>

\* process: put_queue.put((t,v))
ProcessPut(j) ==
    /\ process[j].pc = "put"
    /\ _save_queue' = Append(_save_queue, process[j].held)
    /\ process' = [process EXCEPT ![j] = [pc |-> "get", held |-> 0]]
    /\ UNCHANGED <<lifecycle, aside, devthreads, _driver_lock, configured, _collecting, _run_lock,
                   _process_queue, collect, save, files, acquired, failed, used, stale, idle_cycles>>

\* process as it would be if the handler put the failed sample back
ProcessRaise_Requeue(j) ==
    /\ process[j].pc = "put"
    /\ failed' = failed \cup {process[j].held}
    /\ _process_queue' = Append(_process_queue, process[j].held)
    /\ process' = [process EXCEPT ![j] = [pc |-> "get", held |-> 0]]
    /\ UNCHANGED <<lifecycle, aside, devthreads, _driver_lock, configured, _collecting, _run_lock,
                   _save_queue, collect, save, files, acquired, used, stale, idle_cycles>>

\* process: the body raises before the put; except: print, and the loop goes on
ProcessRaise(j) ==
    /\ process[j].pc = "put"
    /\ failed' = failed \cup {process[j].held}
    /\ process' = [process EXCEPT ![j] = [pc |-> "get", held |-> 0]]
    /\ UNCHANGED <<lifecycle, aside, devthreads, _driver_lock, configured, _collecting, _run_lock,
                   _process_queue, _save_queue, collect, save, files, acquired,
                   used, stale, idle_cycles>>

\* save: the file is created and the header row written when the thread starts
SaveInit(k) ==
    /\ k <= launches /\ save[k].pc = "init"
    /\ files' = [files EXCEPT ![k] = <<Header>>]
    /\ save' = [save EXCEPT ![k].pc = "get"]
    /\ UNCHANGED <<lifecycle, aside, devthreads, _driver_lock, configured, _collecting, _run_lock,
                   _process_queue, _save_queue, collect, process, acquired,
                   failed, used, stale, idle_cycles>>

\* save: times,voltages = queue.get()
SaveGet(k) ==
    /\ save[k].pc = "get"
    /\ _save_queue # << >>
    /\ save' = [save EXCEPT ![k] = [pc |-> "write", held |-> Head(_save_queue)]]
    /\ _save_queue' = Tail(_save_queue)
    /\ UNCHANGED <<lifecycle, aside, devthreads, _driver_lock, configured, _collecting, _run_lock,
                   _process_queue, collect, process, files, acquired, failed, used, stale, idle_cycles>>

\* save: the rows of the sample are appended to the file; nothing is tested
\* before the write, self._allow_save included
SaveWrite(k) ==
    /\ save[k].pc = "write"
    /\ files' = [files EXCEPT ![k] = Append(@, save[k].held)]
    /\ used' = IF _allow_save THEN used \cup {k} ELSE used
    /\ save' = [save EXCEPT ![k] = [pc |-> "get", held |-> 0]]
    /\ UNCHANGED <<lifecycle, aside, devthreads, _driver_lock, configured, _collecting, _run_lock,
                   _process_queue, _save_queue, collect, process, acquired,
                   failed, stale, idle_cycles>>

\* save: opening the file or writing raises; except: print, and the loop goes on
SaveWriteRaise(k) ==
    /\ save[k].pc = "write"
    /\ failed' = failed \cup {save[k].held}
    /\ save' = [save EXCEPT ![k] = [pc |-> "get", held |-> 0]]
    /\ UNCHANGED <<lifecycle, aside, devthreads, _driver_lock, configured, _collecting, _run_lock,
                   _process_queue, _save_queue, collect, process, files,
                   acquired, used, stale, idle_cycles>>

Stage(i) ==
    \/ CollectAcquire(i) \/ CollectIdle(i) \/ CollectEnter(i)
    \/ CollectRead(i) \/ CollectReadRaise(i) \/ CollectPut(i)
    \/ ProcessGet(i) \/ ProcessPut(i) \/ ProcessRaise(i)
    \/ SaveInit(i) \/ SaveGet(i) \/ SaveWrite(i) \/ SaveWriteRaise(i)

\* One controlling thread, and the stage threads its start() calls launch.
\* The user interface calls start() without a data_dir.
PipeNext ==
    \/ Step(Main) /\ UNCHANGED _data_dir
    \/ toggle_run
    \/ \E i \in Runs : Stage(i)

PipeSpec == Init /\ [][PipeNext]_vars

\* The controlling thread, recorded, and the acquisition threads alone: what
\* the process and save threads do with the queue has no effect on them.
Collect(i) ==
    \/ CollectAcquire(i) \/ CollectIdle(i) \/ CollectEnter(i)
    \/ CollectRead(i) \/ CollectReadRaise(i) \/ CollectPut(i)

GateNext ==
    \/ SeqNext /\ UNCHANGED _data_dir
    \/ toggle_run
    \/ \E i \in Runs : Collect(i)

GateSpec == SeqInit /\ [][GateNext]_vars

-----------------------------------------------------------------------------
\* Picoscope3207a.run_once, called by the thread of the user interface

\* What a run_once call leaves alone.
bystanders ==
    <<lifecycle, config, clk, devthreads, configured, _collecting, _save_queue,
      collect, process, save, files, failed, used, stale, idle_cycles>>

\* the call is made
OnceCall ==
    /\ once = "idle"
    /\ Room > 0
    /\ once' = "lock"
    /\ UNCHANGED <<bystanders, mark, _run_lock, _driver_lock, _process_queue,
                   acquired>>

\* run_once as it would be if it called run() without the run lock
OnceAcquire_NoWait ==
    /\ once = "lock"
    /\ _run_lock' = Button
    /\ mark' = acquired
    /\ once' = "enter"
    /\ UNCHANGED <<bystanders, _driver_lock, _process_queue, acquired>>

\* with self._run_lock:
OnceAcquire ==
    /\ once = "lock"
    /\ _run_lock = 0
    /\ _run_lock' = Button
    /\ mark' = acquired
    /\ once' = "enter"
    /\ UNCHANGED <<bystanders, _driver_lock, _process_queue, acquired>>

\* run(queue, True): override skips the test of self._collecting;
\* with self._driver_lock:
OnceEnter ==
    /\ once = "enter"
    /\ ~_driver_lock
    /\ _driver_lock' = TRUE
    /\ once' = "run"
    /\ UNCHANGED <<bystanders, mark, _run_lock, _process_queue, acquired>>

\* run: the driver calls succeed, which needs the buffers and the timebase that
\* _start_device sets; the with block releases the driver lock
OnceRead ==
    /\ once = "run"
    /\ configured
    /\ _driver_lock' = FALSE
    /\ once' = "put"
    /\ UNCHANGED <<bystanders, mark, _run_lock, _process_queue, acquired>>

\* run: a driver call fails (or _timebase does not exist yet): the exception
\* leaves run_once through both with blocks, which release the locks
OnceReadRaise ==
    /\ once = "run"
    /\ _driver_lock' = FALSE
    /\ _run_lock' = 0
    /\ mark' = 0
    /\ once' = "idle"
    /\ UNCHANGED <<bystanders, _process_queue, acquired>>

\* run: queue.put((time_data,data)); the clockwork wait; run_once returns and
\* its with block releases the run lock
OncePut ==
    /\ once = "put"
    /\ acquired' = acquired + 1
    /\ _process_queue' = Append(_process_queue, acquired + 1)
    /\ _run_lock' = 0
    /\ mark' = 0
    /\ once' = "idle"
    /\ UNCHANGED <<bystanders, _driver_lock>>

run_once ==
    \/ OnceCall \/ OnceAcquire \/ OnceEnter
    \/ OnceRead \/ OnceReadRaise \/ OncePut

\* The threads that take a lock: the controlling thread, which makes every
\* lifecycle call, the other callers, which call close() as the user
\* interface does on exit, the acquisition threads and the run_once calls.
LockNext ==
    \/ Step(Main) /\ UNCHANGED _data_dir
    \/ \E t \in Threads \ {Main} : Step(t) /\ op'[t] \in {"none", "close"}
    \/ toggle_run
    \/ \E i \in Runs : Collect(i)
    \/ run_once

LockSpec == Init /\ [][LockNext]_vars

-----------------------------------------------------------------------------
\* The background threads of the Device parent class, for a device that
\* declares them.  Such a device is not the Picoscope: it has the lifecycle
\* calls and these two loops, and none of the Picoscope's stage threads.

\* Device.update: if self._running: self._get_update(queue) raises;
\* except: self._has_error = True
DevUpdateRaise ==
    /\ upd /\ _running
    /\ _has_error' = TRUE
    /\ UNCHANGED <<_opening, _open, _running, _allow_save, _data_dir, _lock,
                   launches, pc, hooks, raised, locals, opened, pipe>>

\* Device.save: if self._running and self._allow_save: self._save_data(queue)
\* raises; except: self._has_error = True
DevSaveRaise ==
    /\ sav /\ _running /\ _allow_save
    /\ _has_error' = TRUE
    /\ UNCHANGED <<_opening, _open, _running, _allow_save, _data_dir, _lock,
                   launches, pc, hooks, raised, locals, opened, pipe>>

\* A device may declare a save thread, an update thread, both or neither.
DevInit ==
    /\ Construct /\ observing = FALSE /\ NoClock
    /\ _has_update_thread \in BOOLEAN /\ _has_save_thread \in BOOLEAN

DevNext == Step(Main) \/ DevUpdateRaise \/ DevSaveRaise

DevSpec == DevInit /\ [][DevNext]_vars

\* Device.check_error, the body of the fault monitor's loop.  __init__ builds the
\* Thread object for it and nothing calls its start(), so no thread runs this
\* loop and no specification takes this step.
check_error ==
    /\ _has_error
    /\ _open' = FALSE
    /\ _running' = FALSE
    /\ _allow_save' = FALSE
    /\ UNCHANGED <<_opening, _has_error, _data_dir, _lock, launches, pc, hooks,
                   raised, locals, opened>>
    /\ UNCHANGED pipe

\* The controlling thread never stops making calls, and every call it makes
\* runs to its end (the lifecycle lock is free whenever one thread calls).
FairSeqSpec == SeqSpec /\ WF_vars(SeqNext)

TypeOK ==
    /\ flags \in BOOLEAN \X BOOLEAN \X BOOLEAN \X BOOLEAN \X BOOLEAN
    /\ _data_dir \in DirArgs
    /\ _lock \in {0} \cup Threads
    /\ launches \in 0..MaxRuns
    /\ acquired \in 0..MaxSamples
    /\ _run_lock \in {0, Button} \cup Runs
    /\ \A i \in Runs : collect[i] \in {"lock", "test", "run", "put", "dead"}
    /\ _driver_lock \in BOOLEAN /\ configured \in BOOLEAN
    /\ once \in {"idle", "lock", "enter", "run", "put"}
    /\ mark \in 0..MaxSamples
    /\ clk.pc \in {"off", "idle", "method", "while", "returned"}

-----------------------------------------------------------------------------
\* Observations of the recorded caller

\* Main's call of method m has ended and Main has not gone on yet.
Ended(m) == observing /\ op[Main] = m /\ pc[Main] = "done"

\* How many times the current call invoked hook h.
Invoked(h) == Cardinality({i \in DOMAIN hooks : hooks[i].hook = h})

\* A hook invoked by the current call raised.
HookRaised == \E i \in DOMAIN hooks : ~hooks[i].ok

\* The hooks the current call invoked, in order.
HookNames == [i \in DOMAIN hooks |-> hooks[i].hook]

-----------------------------------------------------------------------------
\* C1: in every reachable state `ready` is true iff the lifecycle state is
\* Open or Running and the fault flag is not set.
C1_ReadyIffUsableAndNotFaulted ==
    ready <=> (DeviceState \in {"Open", "Running"} /\ ~_has_error)

\* C2: in every sequence of calls by one thread, _running becomes true only
\* in a step of start(), taken while the device is Open, after an open()
\* whose hook succeeded and that no close() has closed since.
C2_RunningOnlyThroughOpen ==
    [][(~_running /\ _running') => (op[Main] = "start" /\ opened /\ _open)]_vars

\* a start() that directly follows an open() has set _running for a second run
C2_Witness ==
    /\ observing /\ op[Main] = "start" /\ pc[Main] = "start_release"
    /\ last = "open" /\ _running /\ launches = 2 /\ ~entry.running

\* C3: with concurrent start() calls at most one thread is inside the start
\* hook; no thread enters the start hook while _running is true; and the stage
\* threads are launched only while _running is false, one launch at a time.
InStartHook(t) == pc[t] \in {"start_enter", "start_hook"}

C3_StartSerialized ==
    /\ [](Cardinality({t \in Threads : InStartHook(t)}) <= 1)
    /\ [][\A t \in Threads :
            (~InStartHook(t) /\ InStartHook(t)') => ~_running]_vars
    /\ [][launches' # launches => (~_running /\ launches' = launches + 1)]_vars

\* one start() has set Running and not yet returned while another start()
\* found the device already running
C3_Witness ==
    \E t, u \in Threads :
        /\ t # u /\ op[t] = "start" /\ op[u] = "start"
        /\ pc[t] = "start_already" /\ pc[u] = "done" /\ _running

\* C4: when an open() whose hook raised ends, the fault flag is set, _open
\* is false, the call started no stage thread, and `ready` is false.
C4_FailedOpenLeavesClosed ==
    (Ended("open") /\ HookRaised) =>
        (_has_error /\ ~_open /\ launches = entry.launches /\ ~ready)

\* C5: open() called in a state other than Closed invokes no hook and leaves
\* every flag and the stage threads as they were.
C5_OpenNoopUnlessClosed ==
    (Ended("open") /\ StateOf(entry) # "Closed") =>
        (hooks = << >> /\ Fields = entry)

\* C6: close() called on an Open or Running device ends with _open and
\* _running false and the close hook invoked exactly once, as the last hook,
\* after the stop hook when the device was Running.
C6_CloseAlwaysCloses ==
    (Ended("close") /\ (entry.open \/ entry.running)) =>
        /\ ~_open /\ ~_running
        /\ HookNames = IF entry.running THEN <<"stop", "close">> ELSE <<"close">>

\* C7: the fault flag stays set until close(), and close() clears it: once
\* close() has ended the fault flag is false.  (No step of the model resets
\* _has_error, so the formula states the half of the claim that can fail.)
C7_CloseClearsFault ==
    Ended("close") => ~_has_error

\* C8: start() called when the device is not Open, or is Running already,
\* invokes no hook and leaves every field, the data directory included, as
\* it was.
C8_StartNoop ==
    (Ended("start") /\ (~entry.open \/ entry.running)) =>
        (hooks = << >> /\ Fields = entry)

\* C9: when a start() in which _create_log or the start hook raised ends,
\* the fault flag is set, _running is false and the lifecycle lock is free.
C9_FailedStartFaults ==
    (Ended("start") /\ HookRaised) =>
        (_has_error /\ ~_running /\ _lock = 0)

\* C10: when stop() ends _running and _allow_save are false, whatever the
\* state it was called in; a stop() that follows a stop() leaves every field
\* as it found it; close() on a closed controller changes no field and invokes
\* no hook.
C10_StopIdempotentCloseNoop ==
    /\ Ended("stop") => (~_running /\ ~_allow_save)
    /\ (Ended("stop") /\ last = "stop") => Fields = entry
    /\ (Ended("close") /\ ~entry.open) => (Fields = entry /\ hooks = << >>)

\* a second stop() in a row has ended on a closed device
C10_Witness ==
    Ended("stop") /\ last = "stop" /\ ~_open /\ Invoked("stop") = 1

\* A stop hook invoked by the current call raised.
StopHookRaised == \E i \in DOMAIN hooks : hooks[i].hook = "stop" /\ ~hooks[i].ok

\* C11: when a stop(), or a close() that called stop(), in which the stop hook
\* raised ends, the fault flag is set.
C11_StopFailureFaults ==
    ((Ended("stop") \/ Ended("close")) /\ StopHookRaised) => _has_error

\* C12: whenever the fault flag is set, eventually _running, _allow_save and
\* _open are all false (the fault monitor forces them), so `ready` is false.
C12_MonitorForcesShutdown ==
    _has_error ~> (~_running /\ ~_allow_save /\ ~_open /\ ~ready)

\* The step sets the fault flag.
Faults == ~_has_error /\ _has_error'

\* C13: the fault flag is set only by a failing open or start hook of a
\* lifecycle call, never by a step of a background loop (Device.update,
\* Device.save, run_loop, process, save).
C13_OnlyLifecycleFailuresFault ==
    [][Faults => \E t \in Threads : pc[t] \in {"open_hook", "start_hook"}
                                      /\ pc'[t] # pc[t]]_vars

-----------------------------------------------------------------------------
\* Where the samples are

\* The number of entries of queue (or file) q that are sample s.
Count(q, s) == Cardinality({i \in DOMAIN q : q[i] = s})
\* The rows of sample s in the files of save threads 1..k.
RECURSIVE Written(_, _)
Written(s, k) == IF k = 0 THEN 0 ELSE Count(files[k], s) + Written(s, k - 1)
\* The copies of sample s held by the queues and the process and save threads.
InFlight(s) ==
    Count(_process_queue, s) + Count(_save_queue, s)
    + Cardinality({j \in Runs : process[j].held = s})
    + Cardinality({k \in Runs : save[k].held = s})
Samples == 1..acquired

AtSave(s) == (\E k \in Runs : save[k].held = s) \/ Written(s, MaxRuns) > 0
Upstream(s) ==
    \/ Count(_process_queue, s) > 0
    \/ \E j \in Runs : process[j].held = s
    \/ Count(_save_queue, s) > 0

\* C15: the save stage takes the samples in the order they were enqueued: when
\* a save thread has taken sample s, no sample enqueued before s is still on
\* its way to the save stage.
C15_SavedInAcquisitionOrder ==
    \A s \in Samples, r \in Samples : (r < s /\ AtSave(s)) => ~Upstream(r)

\* The step appends a data row to the file of save thread k.
WritesRow(k) == files[k] # << >> /\ Len(files'[k]) > Len(files[k])

\* C16: a save thread appends a data row only while _allow_save is true (every
\* sample here comes from the continuous loop, none from a one-shot request).
C16_WritesOnlyUnderCapture ==
    [][\A k \in Runs : WritesRow(k) => _allow_save]_vars

\* C17: no acquisition thread reads the device for a sample while the device
\* is not running, once the cycles that may overlap the period after stop()
\* or close() returned are over.
C17_AcquisitionGatedByRunning ==
    [][\A i \in Runs :
          (Idle /\ collect[i] = "run" /\ collect'[i] = "put")
              => idle_cycles < MaxIdle]_vars

\* C18: the file of a save thread begins with its only header row, and the
\* header is written with the first sample: a file that holds the header and
\* no data row belongs to a thread that is writing its first sample.
C18_HeaderLazyOnce ==
    \A k \in Runs :
        files[k] # << >> =>
            /\ files[k][1] = Header
            /\ Count(files[k], Header) = 1
            /\ DataRows(k) = {} => save[k].pc = "write"

\* C19: a data row written while capture is enabled never goes to a file that
\* was used by a capture session ended by an earlier disable.
C19_ReenableOpensNewSink ==
    [][\A k \in Runs : (WritesRow(k) /\ _allow_save) => k \notin stale]_vars

\* The header rows in the files of all save threads.
Headers == Written(Header, MaxRuns)

\* C20: when a data row is written with capture enabled and no failure so
\* far, the files hold one header in all and no sample twice.
C20_ExactlyOnceOneHeader ==
    [][(_allow_save /\ failed = {} /\ \E k \in Runs : WritesRow(k)) =>
          /\ Headers' = 1
          /\ \A s \in Samples : Written(s, MaxRuns)' <= 1]_vars

-----------------------------------------------------------------------------
\* clockwork(duration): one call of the wrapper, on a clock that ticks.  Times
\* are counted in ticks; `duration` and `contingency` are whole numbers of them.

\* The longest period, margin and operation.
MaxPeriod == 4
MaxMargin == 2
MaxOp == 5

\* (time.time()-start) < (duration - contingency), without the subtraction
Spinning == (clk.now - clk.start) + clk.contingency < clk.duration

ClockInit ==
    /\ Construct /\ observing = FALSE /\ Plain
    /\ \E P \in 1..MaxPeriod, m \in 0..MaxMargin, n \in 0..1 :
          clk = [pc |-> "idle", now |-> n, start |-> 0, duration |-> P,
                 contingency |-> m, took |-> 0]

\* start = time.time() ; result = method(*args,**kwargs) begins
ClockCall ==
    /\ clk.pc = "idle"
    /\ clk' = [clk EXCEPT !.pc = "method", !.start = clk.now]
    /\ UNCHANGED <<lifecycle, config, devthreads, once, mark, _collecting,
                   _driver_lock, configured, stages, stale, idle_cycles>>

\* the clock ticks while the method runs
ClockTickMethod ==
    /\ clk.pc = "method"
    /\ clk.now - clk.start < MaxOp
    /\ clk' = [clk EXCEPT !.now = clk.now + 1]
    /\ UNCHANGED <<lifecycle, config, devthreads, once, mark, _collecting,
                   _driver_lock, configured, stages, stale, idle_cycles>>

\* the method returns, having taken the time that has passed
ClockMethodReturns ==
    /\ clk.pc = "method"
    /\ clk' = [clk EXCEPT !.pc = "while", !.took = clk.now - clk.start]
    /\ UNCHANGED <<lifecycle, config, devthreads, once, mark, _collecting,
                   _driver_lock, configured, stages, stale, idle_cycles>>

\* while (time.time()-start) < (duration - contingency): pass -- the clock
\* ticks while the loop spins
ClockTickSpin ==
    /\ clk.pc = "while"
    /\ Spinning
    /\ clk' = [clk EXCEPT !.now = clk.now + 1]
    /\ UNCHANGED <<lifecycle, config, devthreads, once, mark, _collecting,
                   _driver_lock, configured, stages, stale, idle_cycles>>

\* the wrapper as it would be without the while loop
ClockReturn_NoWait ==
    /\ clk.pc = "while"
    /\ clk' = [clk EXCEPT !.pc = "returned"]
    /\ UNCHANGED <<lifecycle, config, devthreads, once, mark, _collecting,
                   _driver_lock, configured, stages, stale, idle_cycles>>

\* the loop test fails; return result
ClockReturn ==
    /\ clk.pc = "while"
    /\ ~Spinning
    /\ clk' = [clk EXCEPT !.pc = "returned"]
    /\ UNCHANGED <<lifecycle, config, devthreads, once, mark, _collecting,
                   _driver_lock, configured, stages, stale, idle_cycles>>

ClockNext ==
    \/ ClockCall \/ ClockTickMethod \/ ClockMethodReturns
    \/ ClockTickSpin \/ ClockReturn

ClockSpec == ClockInit /\ [][ClockNext]_vars

\* How long the wrapped call has taken.
Wrapped == clk.now - clk.start

\* C24: when the wrapped call returns, it has taken at least the time the
\* method took and at least duration - contingency; it has taken no more than
\* the method when the method took duration or longer; and it has taken the
\* larger of the two, the method's time and duration - contingency, to within
\* one tick.
C24_RateLimiterDuration ==
    clk.pc = "returned" =>
        /\ Wrapped >= clk.took
        /\ Wrapped + clk.contingency >= clk.duration
        /\ clk.took >= clk.duration => Wrapped = clk.took
        /\ \/ Wrapped <= clk.took + 1
           \/ Wrapped + clk.contingency <= clk.duration + 1

\* A call that waited (the method was faster than duration - contingency).
C24_Witness ==
    /\ clk.pc = "returned"
    /\ clk.contingency > 0
    /\ clk.took + clk.contingency < clk.duration
    /\ Wrapped > clk.took

-----------------------------------------------------------------------------
\* The locks of the Picoscope

\* Where a caller is inside, and where it waits for, a driver critical section.
HookPcs == {"open_hook", "close_hook", "start_hook", "stop_hook"}
EnterPcs == {"open_enter", "close_enter", "start_enter", "stop_enter"}
\* The number of threads inside a critical section of driver calls.
DriverUsers ==
    Cardinality({t \in Threads : pc[t] \in HookPcs})
    + Cardinality({i \in Runs : collect[i] = "run"})
    + (IF once = "run" THEN 1 ELSE 0)
\* The acquisition cycles in progress, of run_loop threads and of run_once.
LoopCycles == {i \in Runs : collect[i] \in {"test", "run", "put"}}
OnceCycle == once \in {"enter", "run", "put"}

\* C21: at most one thread is inside a critical section of driver calls (of
\* the open, close, start and stop hooks, of a run_loop cycle or of run_once),
\* and at most one acquisition cycle, continuous or one-shot, is in progress.
C21_OneDriverOperation ==
    /\ DriverUsers <= 1
    /\ _driver_lock <=> DriverUsers = 1
    /\ Cardinality(LoopCycles) + (IF OnceCycle THEN 1 ELSE 0) <= 1

\* A caller waits for the driver lock and a run_once call for the run lock
\* while a run_loop thread is inside its driver calls.
C21_Witness ==
    /\ \E t \in Threads : pc[t] \in EnterPcs
    /\ \E i \in Runs : collect[i] = "run"
    /\ once = "lock"

CycleFails(i) == collect[i] = "run" /\ collect'[i] \notin {"run", "put"}

\* C23: when the device calls of a run_loop cycle fail, both locks are
\* released, the fault flag is left as it was and the thread is back at the
\* top of its loop, ready for the next cycle.
C23_AcquisitionFailureContained ==
    [][\A i \in Runs :
          CycleFails(i) =>
              /\ ~_driver_lock' /\ _run_lock' = 0
              /\ _has_error' = _has_error
              /\ collect'[i] = "lock"]_vars

-----------------------------------------------------------------------------
\* The threads of the stages

\* The collect (also process, also save) threads that have been started:
\* _start_device starts one of each on every call that gets that far.
StageThreads == {i \in Runs : i <= launches}

\* C25: at most one acquisition thread, one processing thread and one
\* persistence thread exist, whatever calls were made.
C25_OneThreadPerStage == Cardinality(StageThreads) <= 1

-----------------------------------------------------------------------------
\* The lifecycle lock

\* Where a caller is inside `with self._lock:` of start() or of stop().
UnderLock ==
    {"start_dir", "start_running", "start_already", "start_save", "start_log",
     "start_enter", "start_hook", "start_assign", "start_release",
     "stop_running", "stop_save", "stop_enter", "stop_hook"}

\* A step of the thread that is inside a critical section of driver calls.
DriverHolderStep ==
    \/ \E t \in Threads : pc[t] \in HookPcs /\ Step(t)
    \/ \E i \in Runs : collect[i] = "run" /\ Collect(i)
    \/ once = "run" /\ run_once

\* C26: the lifecycle lock is held by a caller exactly while that caller is
\* inside the with block of start() or stop(), so it is free again on every
\* exit, a raising hook included, and no stage thread ever holds it.  No
\* state is a deadlock over the three locks: the holder of the lifecycle lock
\* can take a step unless it waits for the driver lock; the holder of the run
\* lock is in its cycle, where it waits for nothing but the driver lock; the
\* holder of the driver lock can always take a step.  (A thread that waits
\* for the lifecycle lock or for the run lock is at none of the places where a
\* lock is held.)
C26_LifecycleLockDiscipline ==
    /\ _lock \in {0} \cup Threads
    /\ \A t \in Threads : _lock = t <=> pc[t] \in UnderLock
    /\ \A t \in Threads :
          _lock = t => \/ ENABLED Step(t)
                       \/ pc[t] \in EnterPcs /\ _driver_lock
    /\ \A i \in Runs : _run_lock = i <=> collect[i] \in {"test", "run", "put"}
    /\ _run_lock = Button <=> OnceCycle
    /\ _driver_lock => ENABLED DriverHolderStep

\* A close() waits for the lifecycle lock that a start() holds, the start()
\* waits for the driver lock that a run_loop thread holds inside its cycle,
\* and a run_once call waits for the run lock.
C26_Witness ==
    \E t, u \in Threads :
        /\ pc[t] = "stop_lock" /\ pc[u] = "start_enter" /\ _lock = u
        /\ \E i \in Runs : collect[i] = "run" /\ _run_lock = i
        /\ _driver_lock /\ once = "lock"

-----------------------------------------------------------------------------
\* The processing stage

\* A process thread: nothing in its loop body can fail on the way from the
\* get to the put (both queues are unbounded), and nothing tests _running.
Process(j) == ProcessGet(j) \/ ProcessPut(j)

\* The controlling thread, continuous and one-shot acquisition, and the
\* process threads.
DrainNext ==
    \/ Step(Main) /\ UNCHANGED _data_dir
    \/ toggle_run
    \/ \E i \in Runs : Collect(i)
    \/ \E j \in Runs : Process(j)
    \/ run_once

DrainSpec == Init /\ [][DrainNext]_vars

\* The samples of a queue are in the order they were acquired.
InOrder(q) == \A a, b \in 1..Len(q) : a < b => q[a] < q[b]

\* C27: a sample on _process_queue is never left without a processing thread
\* to take it, and a processing thread that waits for a sample can take it
\* whatever _running and _open are; a sample is forwarded as it was taken, and
\* the samples are forwarded in the order they were enqueued.
C27_ProcessingDrainsQueue ==
    /\ [](_process_queue # << >> => launches > 0)
    /\ [](\A j \in Runs :
            (j <= launches /\ process[j].pc = "get" /\ _process_queue # << >>)
                => ENABLED ProcessGet(j))
    /\ [][\A j \in Runs :
            (process[j].pc = "put" /\ process'[j].pc = "get")
                => _save_queue' = Append(_save_queue, process[j].held)]_vars
    /\ [](InOrder(_process_queue) /\ InOrder(_save_queue))

-----------------------------------------------------------------------------
\* toggle_save next to the calls of other threads

\* One caller, whose calls are recorded, makes every call while the other
\* callers call stop().
WatchNext ==
    \/ Step(Main)
    \/ \E t \in Threads \ {Main} : Step(t) /\ op'[t] \in {"none", "stop"}

WatchSpec == SeqInit /\ [][WatchNext]_vars

\* The recorded caller executes the assignment of toggle_save.
Flips == observing /\ pc[Main] = "toggle_flip" /\ pc'[Main] = "done"

\* C28: the assignment of toggle_save leaves the flag the opposite of what it
\* was when toggle_save was called; when it turns the flag on, this call of
\* toggle_save has called _create_log (once), and when it turns the flag off,
\* it has not.
C28_ToggleOpensSessionOnEnable ==
    [][Flips =>
          /\ _allow_save' = ~entry.allow_save
          /\ (~_allow_save /\ _allow_save') => Invoked("create_log") = 1
          /\ (_allow_save /\ ~_allow_save') => Invoked("create_log") = 0]_vars

-----------------------------------------------------------------------------
\* Device.restart

\* The hooks a close() followed by an open() invokes, from the state f.
RestartHooks(f) ==
    (IF f.open
        THEN (IF f.running THEN <<"stop">> ELSE << >>) \o <<"close">>
        ELSE << >>) \o <<"open">>

\* C29: a restart() whose hooks all succeeded has invoked the hooks of close()
\* and then the open hook; called from Running, that is the stop hook, then
\* the close hook, then the open hook, and it ends Open with _running false
\* and capture disabled.
C29_RestartClosesThenOpens ==
    (Ended("restart") /\ ~HookRaised) =>
        /\ HookNames = RestartHooks(entry)
        /\ StateOf(entry) = "Running" =>
              /\ HookNames = <<"stop", "close", "open">>
              /\ DeviceState = "Open" /\ ~_running /\ ~_allow_save

\* A restart() called from Running with capture enabled has ended.
C29_Witness ==
    /\ Ended("restart") /\ ~HookRaised
    /\ StateOf(entry) = "Running" /\ entry.allow_save

-----------------------------------------------------------------------------
\* close() next to start()

\* No caller is inside a lifecycle call.
Quiescent == \A t \in Threads : pc[t] \in {"idle", "done"}

\* C30: whenever no lifecycle call is in progress, _running is true only if
\* _open is true.
C30_RunningImpliesOpen == Quiescent => (_running => _open)

-----------------------------------------------------------------------------
\* The acquisition thread and the closed device

\* The close() of the recorded caller closed the device and has returned, and
\* the caller has made no call since.
ClosedHandle ==
    /\ Ended("close") /\ entry.open
    /\ Invoked("close") = 1 /\ ~HookRaised /\ ~raised
    /\ ~_open

\* run_loop thread i enters its device calls (RunBlock, IsReady, GetValues).
BeginsCycle(i) == collect[i] = "test" /\ collect'[i] = "run"

\* C31: once close() has closed the device and returned, no run_loop thread
\* enters the device calls of an acquisition cycle.
C31_NoDeviceUseAfterClose ==
    [][ClosedHandle => \A i \in Runs : ~BeginsCycle(i)]_vars

-----------------------------------------------------------------------------
\* run_once next to the continuous loop

\* A cycle of run_loop thread i while _collecting is false: the run lock is
\* taken, held for the rate-limiter period and released; after the pause of
\* 1 ms the thread asks for it again.
Loop(i) == CollectAcquire(i) \/ CollectIdle(i)

\* A run_once call that has been made goes on.
OnceSteps == OnceAcquire \/ OnceEnter \/ OnceRead \/ OnceReadRaise \/ OncePut

\* A caller goes on with the call it is in.
Proceeds(t) == pc[t] # "idle" /\ Step(t)

\* The controlling thread, the run_loop threads with collecting off, and the
\* run_once calls of the user interface.
OnceNext ==
    \/ Step(Main) /\ UNCHANGED _data_dir
    \/ \E i \in Runs : Loop(i)
    \/ run_once

\* Every thread that can take a step is scheduled in the end (weak fairness
\* for each thread), so every device call and every lifecycle call that was
\* begun ends; self._run_lock is a multiprocessing.Lock, which promises no
\* order among the threads that ask for it.
FairOnceSpec ==
    /\ Init /\ [][OnceNext]_vars
    /\ WF_vars(Proceeds(Main))
    /\ \A i \in Runs : WF_vars(Loop(i))
    /\ WF_vars(OnceSteps)

\* The same with a run lock that is granted in the end to a thread that asks
\* for it again and again (strong fairness of the acquisition), which the
\* lock of the code does not promise.
StrongOnceSpec == FairOnceSpec /\ SF_vars(OnceAcquire)

-----------------------------------------------------------------------------
\* The shared buffer self._data

\* A start() replaces self._data (and _data_buffer) by newly allocated arrays:
\* the first statements of _start_device, which need no lock.
ReplacesData == \E t \in Threads : pc[t] = "start_enter" /\ pc'[t] = "start_hook"

\* An acquisition cycle, of a run_loop thread or of run_once, has read the
\* device into the buffers and has not yet computed its sample from
\* self._data and enqueued it.
ReadNotEnqueued == (\E i \in Runs : collect[i] = "put") \/ once = "put"

\* C33: while an acquisition cycle is between its device read and its
\* enqueue, no thread replaces self._data.
C33_SampleFromOwnCycle ==
    [][ReadNotEnqueued => ~ReplacesData]_vars

=============================================================================
